---- MODULE Spec2Model ----
(***************************************************************************)
(* pic2map: the location store (db.py), the GPS metadata validator and     *)
(* batch extraction generator (gps.py), the row transformer (db.py) and    *)
(* the command line commands that drive them (cli.py).                     *)
(***************************************************************************)
EXTENDS Integers, Sequences, FiniteSets, TLC

VARIABLES
    table,             \* rows of the "location" table of the database file
    connection,        \* Database.connection: "none" (None), "open", "closed"
    issued,            \* every id the table has handed out so far (history)
    last,              \* the last call on the store: its arguments and result
    metadata,          \* the raw tag dictionary handed to the validator
    valid,             \* result of validate_gps_metadata(metadata)
    row,               \* result of transform_metadata_to_row(album, metadata)
    arg_album,         \* the album transform_metadata_to_row was called with
    phase,             \* position of the validate/transform caller
    paths,             \* argument of get_gps_metadata
    pc,                \* position of the get_gps_metadata generator
    i,                 \* enumerate() index of the generator's for loop
    metadata_records,  \* local variable metadata_records of the generator
    batches,           \* the batches the consumer has received, in order
    calls,             \* the chunks tool.get_tags was invoked with, in order
    error,             \* the exception that left the generator, or "none"
    page               \* what index() last handed to render_template

storeVars == <<table, connection, issued, last>>
pureVars  == <<metadata, valid, row, arg_album, phase>>
gpsVars   == <<paths, pc, i, metadata_records, batches, calls, error>>
webVars   == <<page>>
vars      == <<table, connection, issued, last, metadata, valid, row, arg_album, phase,
               paths, pc, i, metadata_records, batches, calls, error, page>>

----------------------------------------------------------------------------
(* Bounds of the model *)

MaxId    == 3     \* inserts stop once an id above MaxId would be assigned
MaxBatch == 2     \* longest batch of rows / records passed in one call

Albums    == {"tripA", "tripB"}
Filepaths == {"/a.jpg", "/b.jpg"}

----------------------------------------------------------------------------
(* Python values: a str or a number, as exiftool's JSON output holds them *)

Str(s) == [type |-> "str", s |-> s, n |-> 0]
Num(n) == [type |-> "number", s |-> "", n |-> n]

None == "None"

Max(S) == CHOOSE x \in S : \A y \in S : y <= x

Perms(S) ==
    {f \in [1..Cardinality(S) -> S] :
        \A a, b \in 1..Cardinality(S) : a # b => f[a] # f[b]}

Range(f) == {f[k] : k \in DOMAIN f}

----------------------------------------------------------------------------
(* db.py: the location table *)

\* Database.__init__: the connection attribute starts as None.
Database_init == "none"

\* Column("id", Integer, primary_key=True, autoincrement=True) on SQLite is an
\* INTEGER PRIMARY KEY rowid alias (the AUTOINCREMENT keyword is only emitted
\* with sqlite_autoincrement=True): a new row gets one more than the largest
\* id currently in the table, 1 when the table is empty.
rowid(tbl) == IF tbl = {} THEN 1 ELSE Max({r.id : r \in tbl}) + 1

\* UniqueConstraint("album", "filepath"): the rows a new row conflicts with.
uix_album_filepath(tbl, new) ==
    {r \in tbl : r.album = new.album /\ r.filepath = new.filepath}

StoreRow(tbl, new) ==
    [id |-> rowid(tbl), album |-> new.album, filepath |-> new.filepath,
     latitude |-> new.latitude.n, longitude |-> new.longitude.n,
     datetime |-> new.datetime]

\* INSERT ... ON CONFLICT DO UPDATE: the stored row takes the new values.
on_conflict_do_update(tbl, new) ==
    IF uix_album_filepath(tbl, new) # {}
    THEN (tbl \ uix_album_filepath(tbl, new)) \cup
         {[StoreRow(tbl, new) EXCEPT !.id = r.id] : r \in uix_album_filepath(tbl, new)}
    ELSE tbl \cup {StoreRow(tbl, new)}

\* INSERT ... ON CONFLICT DO NOTHING of one row.
on_conflict_do_nothing(tbl, new) ==
    IF uix_album_filepath(tbl, new) # {}
    THEN tbl
    ELSE tbl \cup {StoreRow(tbl, new)}

\* connection.execute(insert_query, rows): the rows of the batch in order.
RECURSIVE execute_insert(_, _)
execute_insert(tbl, rows) ==
    IF rows = <<>>
    THEN tbl
    ELSE execute_insert(on_conflict_do_nothing(tbl, Head(rows)), Tail(rows))

\* WHERE album IN (albums), applied only when albums is non-empty.
where_album_in(tbl, albums) ==
    IF albums # {} THEN {r \in tbl : r.album \in albums} ELSE tbl

\* the rows DELETE ... WHERE album = :album removes
delete_all_rows(tbl, album) == tbl

delete_query(tbl, album) == {r \in tbl : r.album = album}

\* SELECT album FROM location [WHERE ...] without DISTINCT: one entry per row,
\* in any order.
select_album(tbl, albums) ==
    {[k \in 1..Cardinality(where_album_in(tbl, albums)) |-> ord[k].album] :
        ord \in Perms(where_album_in(tbl, albums))}

\* SELECT DISTINCT album FROM location [WHERE ...]: the possible result lists.
select_distinct_album(tbl, albums) ==
    Perms({r.album : r \in where_album_in(tbl, albums)})

\* select(location_table) with the filter ignored
select_unfiltered(tbl, albums) == tbl

select_query(tbl, albums) == where_album_in(tbl, albums)

\* SELECT count(*) FROM location WHERE album = :album
count(tbl, album) == Cardinality({r \in tbl : r.album = album})

NoCall ==
    [op |-> "init", album |-> "", albums |-> {}, pairs |-> {}, rows |-> {},
     names |-> <<>>, counts |-> <<>>, n |-> 0, raised |-> "none"]

Call(op) == [NoCall EXCEPT !.op = op]

ClosedError(op) == [Call(op) EXCEPT !.raised = "ResourceClosedError"]

NewIds(old, new) == {r.id : r \in new \ old}

----------------------------------------------------------------------------
(* gps.py: the validator *)

\* TAGS: the tags requested from exiftool
TAGS ==
    <<"EXIF:GPSDateStamp", "EXIF:GPSLatitude", "EXIF:GPSLatitudeRef",
      "EXIF:GPSLongitude", "EXIF:GPSLongitudeRef", "EXIF:GPSTimeStamp">>

\* POSITIVE_NUMBER = All(Any(int, float), Range(min=0))
POSITIVE_NUMBER(v) == v.type = "number" /\ v.n >= 0

\* the keys of the SCHEMA dictionary, all of them Required(...)
SCHEMA_KEYS ==
    {"EXIF:GPSLatitude", "EXIF:GPSLatitudeRef", "EXIF:GPSLongitude",
     "EXIF:GPSLongitudeRef", "SourceFile"}

\* SCHEMA(d) does not raise Invalid.  Schema(...) is built with voluptuous'
\* default extra=PREVENT_EXTRA: a key of d that the schema does not name is an
\* error ("extra keys not allowed"), as is a missing Required key or a value
\* its validator refuses.  `unicode` is the type str: any str passes.
SCHEMA(d) ==
    /\ \A k \in DOMAIN d : k \in SCHEMA_KEYS
    /\ \A k \in SCHEMA_KEYS : k \in DOMAIN d
    /\ POSITIVE_NUMBER(d["EXIF:GPSLatitude"])
    /\ d["EXIF:GPSLatitudeRef"] \in {Str("N"), Str("S")}
    /\ POSITIVE_NUMBER(d["EXIF:GPSLongitude"])
    /\ d["EXIF:GPSLongitudeRef"] \in {Str("E"), Str("W")}
    /\ d["SourceFile"].type = "str"

\* try: SCHEMA(exif_metadata) except Invalid: return False; return True
validate_gps_metadata(exif_metadata) == SCHEMA(exif_metadata)

----------------------------------------------------------------------------
(* db.py: the transformer *)

\* value * k in Python: a number is multiplied, a str repeated k <= 0 times
\* is the empty str
Mul(v, k) == IF v.type = "number" THEN Num(v.n * k) ELSE Str("")

\* arrow.get(s, ["YYYY:MM:DD HH:mm:ss.SSS", "YYYY:MM:DD HH:mm:ss"]).datetime
\* on the date and time stamps of the model; any other string does not parse.
arrow_get(s) ==
    CASE s = "2024:05:17 10:30:00"     -> "2024-05-17T10:30:00+00:00"
      [] s = "2024:05:17 10:30:00.250" -> "2024-05-17T10:30:00.250000+00:00"
      [] OTHER                         -> "ParserError"

has_gps_datetime(m) ==
    "EXIF:GPSDateStamp" \in DOMAIN m /\ "EXIF:GPSTimeStamp" \in DOMAIN m

datetime_str(m) == m["EXIF:GPSDateStamp"].s \o " " \o m["EXIF:GPSTimeStamp"].s

\* whether transform_metadata_to_row(album, m) raises arrow's ParserError
transform_raises(m) ==
    has_gps_datetime(m) /\ arrow_get(datetime_str(m)) = "ParserError"

\* the transformer with the hemisphere test of the longitude on the wrong letter
transform_wrong_hemisphere(album, m) ==
    [album     |-> album,
     filepath  |-> m["SourceFile"].s,
     latitude  |-> IF m["EXIF:GPSLatitudeRef"] = Str("S")
                   THEN Mul(m["EXIF:GPSLatitude"], -1)
                   ELSE m["EXIF:GPSLatitude"],
     longitude |-> IF m["EXIF:GPSLongitudeRef"] = Str("E")
                   THEN Mul(m["EXIF:GPSLongitude"], -1)
                   ELSE m["EXIF:GPSLongitude"],
     datetime  |-> IF has_gps_datetime(m) THEN arrow_get(datetime_str(m)) ELSE None]

transform_metadata_to_row(album, m) ==
    [album     |-> album,
     filepath  |-> m["SourceFile"].s,
     latitude  |-> IF m["EXIF:GPSLatitudeRef"] = Str("S")
                   THEN Mul(m["EXIF:GPSLatitude"], -1)
                   ELSE m["EXIF:GPSLatitude"],
     longitude |-> IF m["EXIF:GPSLongitudeRef"] = Str("W")
                   THEN Mul(m["EXIF:GPSLongitude"], -1)
                   ELSE m["EXIF:GPSLongitude"],
     datetime  |-> IF has_gps_datetime(m) THEN arrow_get(datetime_str(m)) ELSE None]

----------------------------------------------------------------------------
(* The tag dictionaries exiftool can return: SourceFile plus any subset of  *)
(* the requested tags.                                                      *)

Absent == [type |-> "absent", s |-> "", n |-> 0]

Keys == {"SourceFile"} \cup Range(TAGS)

MkRaw(sf, la, lar, lo, lor, d, t) ==
    LET full == [k \in Keys |->
                    CASE k = "SourceFile"           -> sf
                      [] k = "EXIF:GPSLatitude"     -> la
                      [] k = "EXIF:GPSLatitudeRef"  -> lar
                      [] k = "EXIF:GPSLongitude"    -> lo
                      [] k = "EXIF:GPSLongitudeRef" -> lor
                      [] k = "EXIF:GPSDateStamp"    -> d
                      [] OTHER                      -> t]
    IN  [k \in {x \in Keys : full[x] # Absent} |-> full[k]]

SourceFiles      == {Str(f) : f \in Filepaths}
LatitudeValues   == {Absent, Num(-1), Num(0), Num(40), Num(91), Str("40 deg")}
LatitudeRefs     == {Absent, Str("N"), Str("S"), Str("X")}
LongitudeValues  == {Absent, Num(-1), Num(74), Num(181), Str("74 deg")}
LongitudeRefs    == {Absent, Str("E"), Str("W"), Str("X")}
DateStamps       == {Absent, Str("2024:05:17"), Str("17/05/2024")}
TimeStamps       == {Absent, Str("10:30:00"), Str("10.30")}

RawRecords ==
    {MkRaw(sf, la, lar, lo, lor, d, t) :
        sf \in SourceFiles, la \in LatitudeValues, lar \in LatitudeRefs,
        lo \in LongitudeValues, lor \in LongitudeRefs,
        d \in DateStamps, t \in TimeStamps}

\* the GPS tags of the pictures the add command is run on: latitude, its
\* reference, date stamp, time stamp (the longitude is 74 W throughout)
PictureTags ==
    {<<Num(40), Str("N"), Absent, Absent>>,
     <<Num(91), Str("S"), Absent, Absent>>,
     <<Num(40), Str("N"), Str("2024:05:17"), Str("10:30:00")>>,
     <<Absent, Absent, Absent, Absent>>}

Pictures ==
    {MkRaw(Str(f), c[1], c[2], Num(74), Str("W"), c[3], c[4]) :
        f \in Filepaths, c \in PictureTags}

LocationRow(album, filepath, latitude) ==
    [album |-> album, filepath |-> filepath, latitude |-> Num(latitude),
     longitude |-> Num(-74), datetime |-> None]

\* the rows insert is called with directly
LocationRows ==
    {LocationRow("tripA", "/a.jpg", 40), LocationRow("tripA", "/a.jpg", -40),
     LocationRow("tripA", "/b.jpg", 40), LocationRow("tripB", "/a.jpg", 40)}

SeqsUpTo(S, n) == UNION {[1..k -> S] : k \in 1..n}

NoMetadata == [k \in {} |-> Absent]

NoRow ==
    [album |-> "", filepath |-> "", latitude |-> Num(0), longitude |-> Num(0),
     datetime |-> None]

----------------------------------------------------------------------------
(* db.py: the methods of one LocationDB instance *)

PairsOf(rows) == {<<rows[k].album, rows[k].filepath>> : k \in DOMAIN rows}

WithinMaxId(tbl) == \A r \in tbl : r.id <= MaxId

\* Database.connect
connect ==
    /\ connection' = "open"
    /\ last' = Call("connect")
    /\ UNCHANGED <<table, issued, pureVars, gpsVars, webVars>>

\* Database.disconnect
disconnect ==
    /\ IF connection = "none"
       THEN /\ last' = Call("disconnect")
            /\ UNCHANGED connection
       ELSE IF connection = "closed"
       THEN /\ last' = [Call("disconnect") EXCEPT !.raised = "AssertionError"]
            /\ UNCHANGED connection
       ELSE /\ connection' = "closed"
            /\ last' = Call("disconnect")
    /\ UNCHANGED <<table, issued, pureVars, gpsVars, webVars>>

\* LocationDB.insert
insert(rows) ==
    /\ WithinMaxId(execute_insert(table, rows))
    /\ IF connection = "none"
       THEN /\ last' = [Call("insert") EXCEPT !.pairs = PairsOf(rows)]
            /\ UNCHANGED <<table, issued>>
       ELSE IF connection = "closed"
       THEN /\ last' = [ClosedError("insert") EXCEPT !.pairs = PairsOf(rows)]
            /\ UNCHANGED <<table, issued>>
       ELSE /\ table' = execute_insert(table, rows)
            /\ issued' = issued \cup NewIds(table, table')
            /\ last' = [Call("insert") EXCEPT
                            !.pairs = PairsOf(rows),
                            !.n = Cardinality(table' \ table)]
    /\ UNCHANGED <<connection, pureVars, gpsVars, webVars>>

\* LocationDB.select_all
select_all(albums) ==
    /\ IF connection = "none"
       THEN last' = [Call("select_all") EXCEPT !.albums = albums]
       ELSE IF connection = "closed"
       THEN last' = [ClosedError("select_all") EXCEPT !.albums = albums]
       ELSE last' = [Call("select_all") EXCEPT !.albums = albums,
                                               !.rows = select_query(table, albums)]
    /\ UNCHANGED <<table, issued, connection, pureVars, gpsVars, webVars>>

\* LocationDB.delete
delete(album) ==
    /\ IF connection = "none"
       THEN /\ last' = [Call("delete") EXCEPT !.album = album]
            /\ UNCHANGED table
       ELSE IF connection = "closed"
       THEN /\ last' = [ClosedError("delete") EXCEPT !.album = album]
            /\ UNCHANGED table
       ELSE /\ table' = table \ delete_query(table, album)
            /\ last' = [Call("delete") EXCEPT
                            !.album = album,
                            !.n = Cardinality(delete_query(table, album))]
    /\ UNCHANGED <<issued, connection, pureVars, gpsVars, webVars>>

\* LocationDB.list_albums
list_albums(albums) ==
    /\ IF connection = "none"
       THEN last' = [Call("list_albums") EXCEPT !.albums = albums]
       ELSE IF connection = "closed"
       THEN last' = [ClosedError("list_albums") EXCEPT !.albums = albums]
       ELSE \E names \in select_distinct_album(table, albums) :
                last' = [Call("list_albums") EXCEPT !.albums = albums,
                                                    !.names = names]
    /\ UNCHANGED <<table, issued, connection, pureVars, gpsVars, webVars>>

----------------------------------------------------------------------------
(* cli.py: the commands; each opens its own LocationDB scope *)

\* the valid records among those exiftool returned for the paths
filter_gps_metadata(records) == SelectSeq(records, validate_gps_metadata)

\* cli.add, from the records of the pictures found in the directories
add(album, records) ==
    LET gps_metadata_records == filter_gps_metadata(records)
        location_rows ==
            [k \in DOMAIN gps_metadata_records |->
                transform_metadata_to_row(album, gps_metadata_records[k])]
    IN  /\ IF \E k \in DOMAIN gps_metadata_records :
                  transform_raises(gps_metadata_records[k])
           THEN /\ last' = [Call("add") EXCEPT !.album = album,
                                               !.raised = "ParserError"]
                /\ UNCHANGED <<table, issued>>
           ELSE /\ WithinMaxId(execute_insert(table, location_rows))
                /\ table' = IF location_rows # <<>>
                            THEN execute_insert(table, location_rows)
                            ELSE table
                /\ issued' = issued \cup NewIds(table, table')
                /\ last' = [Call("add") EXCEPT !.album = album,
                                               !.pairs = PairsOf(location_rows)]
        /\ UNCHANGED <<connection, pureVars, gpsVars, webVars>>

RECURSIVE remove_albums(_, _)
remove_albums(tbl, albums) ==
    IF albums = <<>>
    THEN tbl
    ELSE remove_albums(tbl \ delete_query(tbl, Head(albums)), Tail(albums))

RECURSIVE remove_counts(_, _)
remove_counts(tbl, albums) ==
    IF albums = <<>>
    THEN <<>>
    ELSE <<Cardinality(delete_query(tbl, Head(albums)))>> \o
         remove_counts(tbl \ delete_query(tbl, Head(albums)), Tail(albums))

\* cli.remove
remove(albums) ==
    /\ table' = remove_albums(table, albums)
    /\ last' = [Call("remove") EXCEPT !.names = albums,
                                      !.counts = remove_counts(table, albums)]
    /\ UNCHANGED <<issued, connection, pureVars, gpsVars, webVars>>

\* cli.list
list(albums) ==
    /\ \E names \in select_distinct_album(table, albums) :
           last' = [Call("list") EXCEPT
                        !.albums = albums,
                        !.names = names,
                        !.counts = [k \in DOMAIN names |-> count(table, names[k])]]
    /\ UNCHANGED <<table, issued, connection, pureVars, gpsVars, webVars>>

----------------------------------------------------------------------------
(* The validator and the transformer applied to one tag dictionary *)

Validate ==
    /\ phase = "input"
    /\ valid' = validate_gps_metadata(metadata)
    /\ phase' = "validated"
    /\ UNCHANGED <<metadata, row, arg_album, storeVars, gpsVars, webVars>>

\* the transformer is called on the records the validator accepted
Transform(album) ==
    /\ phase = "validated"
    /\ valid
    /\ arg_album' = album
    /\ IF transform_raises(metadata)
       THEN /\ phase' = "raised"
            /\ UNCHANGED row
       ELSE /\ phase' = "transformed"
            /\ row' = transform_metadata_to_row(album, metadata)
    /\ UNCHANGED <<metadata, valid, storeVars, gpsVars, webVars>>

----------------------------------------------------------------------------
(* server/app.py: the main page *)

\* a quotient of two integers, kept as numerator and denominator
Rat(n, d) == [num |-> n, den |-> d]

RECURSIVE sum(_)
sum(xs) == IF xs = <<>> THEN 0 ELSE Head(xs) + sum(Tail(xs))

\* pic2map.util.average: the arithmetic mean of a list of numbers
average(xs) == Rat(sum(xs), Len(xs))

\* datetime.strftime(DATE_EXCHANGE_FORMAT), "%Y/%m/%d %H:%M:%S", on the
\* datetimes of the model
strftime(datetime) ==
    CASE datetime = "2024-05-17T10:30:00+00:00"        -> "2024/05/17 10:30:00"
      [] datetime = "2024-05-17T10:30:00.250000+00:00" -> "2024/05/17 10:30:00"
      [] OTHER                                         -> datetime

\* row_to_serializable
row_to_serializable(r) ==
    IF r.datetime # None
    THEN [r EXCEPT !.datetime = strftime(r.datetime)]
    ELSE r

\* the centroid with the latitudes averaged into both coordinates
index_centroid_of_latitudes(db_rows) ==
    IF Len(db_rows) = 0
    THEN <<Rat(0, 1), Rat(0, 1)>>
    ELSE <<average([k \in DOMAIN db_rows |-> db_rows[k].latitude]),
           average([k \in DOMAIN db_rows |-> db_rows[k].latitude])>>

\* index: the centroid of the selected rows, [0, 0] when there are none
index_centroid(db_rows) ==
    IF Len(db_rows) = 0
    THEN <<Rat(0, 1), Rat(0, 1)>>
    ELSE <<average([k \in DOMAIN db_rows |-> db_rows[k].latitude]),
           average([k \in DOMAIN db_rows |-> db_rows[k].longitude])>>

\* index: the rows handed to the template
index_rows(db_rows) ==
    [k \in DOMAIN db_rows |-> row_to_serializable(db_rows[k])]

NoPage == [centroid |-> <<Rat(0, 1), Rat(0, 1)>>, rows |-> <<>>]

\* index, with the albums of the request or of the configuration; it opens
\* its own LocationDB scope
index(albums) ==
    /\ \E db_rows \in Perms(select_query(table, albums)) :
           page' = [centroid |-> index_centroid(db_rows),
                    rows     |-> index_rows(db_rows)]
    /\ last' = [Call("index") EXCEPT !.albums = albums]
    /\ UNCHANGED <<table, issued, connection, pureVars, gpsVars>>

MapRow(album, filepath, latitude, longitude, datetime) ==
    [album |-> album, filepath |-> filepath, latitude |-> Num(latitude),
     longitude |-> Num(longitude), datetime |-> datetime]

\* the rows the map is drawn from
MapRows ==
    {MapRow("tripA", "/a.jpg", 10, 20, None),
     MapRow("tripA", "/b.jpg", 30, 40, None),
     MapRow("tripB", "/a.jpg", -40, -74, "2024-05-17T10:30:00+00:00")}

----------------------------------------------------------------------------
(* gps.py: the batch extraction generator *)

PATHS_PARTITION_SIZE == 1000

TagPeriod == 2    \* exiftool's answer repeats its tags every TagPeriod paths

\* the lengths of the path lists get_gps_metadata is called with
PathCounts == {0, 1, 2, 999, 1000, 1001, 2500}

PathName(k) == "/album/img" \o ToString(k) \o ".jpg"

PathLists == {[k \in 1..n |-> PathName(k)] : n \in PathCounts}

Min(a, b) == IF a < b THEN a ELSE b

\* range(0, len(lst), size): how many slices partition yields
partition_count(lst, size) == (Len(lst) + size - 1) \div size

\* partition(lst, size): the slices lst[i : i+size], as a list
partition(lst, size) ==
    [k \in 1..partition_count(lst, size) |->
        SubSeq(lst, (k - 1) * size + 1, Min(k * size, Len(lst)))]

\* tool.get_tags(part, TAGS): one dictionary per path, in the order of the
\* paths, each with SourceFile and the tags the file has
get_tags(part, tags) ==
    [j \in 1..Len(part) |->
        LET c == tags[j % TagPeriod]
        IN  MkRaw(Str(part[j]), c[1], c[2], Num(74), Str("W"), c[3], c[4])]

Bool(b) == [type |-> "bool", s |-> "", n |-> IF b THEN 1 ELSE 0]

\* metadata_record['valid'] = validate_gps_metadata(metadata_record)
annotate(m) ==
    [k \in DOMAIN m \cup {"valid"} |->
        IF k = "valid" THEN Bool(validate_gps_metadata(m)) ELSE m[k]]

\* the first next(): the partitions are listed and the exiftool helper opened
Start ==
    /\ pc = "start"
    /\ pc' = "for"
    /\ i' = 0
    /\ UNCHANGED <<paths, metadata_records, batches, calls, error,
                   storeVars, pureVars, webVars>>

\* for i, part in enumerate(partition(paths, PATHS_PARTITION_SIZE))
NextPartition ==
    /\ pc = "for"
    /\ pc' = IF i < partition_count(paths, PATHS_PARTITION_SIZE)
             THEN "get_tags" ELSE "done"
    /\ UNCHANGED <<paths, i, metadata_records, batches, calls, error,
                   storeVars, pureVars, webVars>>

\* metadata_records = tool.get_tags(part, TAGS) returns
GetTags ==
    /\ pc = "get_tags"
    /\ \E tags \in [0..(TagPeriod - 1) -> PictureTags] :
           metadata_records' =
               get_tags(partition(paths, PATHS_PARTITION_SIZE)[i + 1], tags)
    /\ calls' = Append(calls, partition(paths, PATHS_PARTITION_SIZE)[i + 1])
    /\ pc' = "validate"
    /\ UNCHANGED <<paths, i, batches, error, storeVars, pureVars, webVars>>

\* tool.get_tags raises and the generator goes on with the next partition
GetTagsFailsSkip ==
    /\ pc = "get_tags"
    /\ calls' = Append(calls, partition(paths, PATHS_PARTITION_SIZE)[i + 1])
    /\ error' = "ExifToolError"
    /\ i' = i + 1
    /\ pc' = "for"
    /\ UNCHANGED <<paths, metadata_records, batches, storeVars, pureVars, webVars>>

\* tool.get_tags raises: nothing in the generator catches it
GetTagsFails ==
    /\ pc = "get_tags"
    /\ calls' = Append(calls, partition(paths, PATHS_PARTITION_SIZE)[i + 1])
    /\ error' = "ExifToolError"
    /\ pc' = "raised"
    /\ UNCHANGED <<paths, i, metadata_records, batches, storeVars, pureVars, webVars>>

\* for metadata_record in metadata_records: metadata_record['valid'] = ...
Annotate ==
    /\ pc = "validate"
    /\ metadata_records' =
           [j \in DOMAIN metadata_records |-> annotate(metadata_records[j])]
    /\ pc' = "log"
    /\ UNCHANGED <<paths, i, batches, calls, error, storeVars, pureVars, webVars>>

\* if len(partitions) > 1: logger.info(..., len(m for m in ...), i + 1):
\* len() of a generator expression raises TypeError
LogPartition ==
    /\ pc = "log"
    /\ IF partition_count(paths, PATHS_PARTITION_SIZE) > 1
       THEN /\ error' = "TypeError"
            /\ pc' = "raised"
       ELSE /\ pc' = "yield"
            /\ UNCHANGED error
    /\ UNCHANGED <<paths, i, metadata_records, batches, calls,
                   storeVars, pureVars, webVars>>

\* yield metadata_records, and the consumer asks for the next batch
Yield ==
    /\ pc = "yield"
    /\ batches' = Append(batches, metadata_records)
    /\ i' = i + 1
    /\ pc' = "for"
    /\ UNCHANGED <<paths, metadata_records, calls, error, storeVars, pureVars, webVars>>

----------------------------------------------------------------------------
(* Specifications *)

StoreInit ==
    /\ table = {}
    /\ connection = Database_init
    /\ issued = {}
    /\ last = NoCall
    /\ page = NoPage

PureIdle ==
    /\ metadata = NoMetadata
    /\ valid = FALSE
    /\ row = NoRow
    /\ arg_album = ""
    /\ phase = "idle"

GpsIdle ==
    /\ paths = <<>>
    /\ pc = "idle"
    /\ i = 0
    /\ metadata_records = <<>>
    /\ batches = <<>>
    /\ calls = <<>>
    /\ error = "none"

\* the store, through the methods of LocationDB
Init == StoreInit /\ PureIdle /\ GpsIdle

Next ==
    \/ connect
    \/ disconnect
    \/ \E rows \in SeqsUpTo(LocationRows, MaxBatch) : insert(rows)
    \/ \E albums \in SUBSET Albums : select_all(albums)
    \/ \E album \in Albums : delete(album)
    \/ \E albums \in SUBSET Albums : list_albums(albums)

Spec == Init /\ [][Next]_vars

\* the store, through the commands of the command line
CliNext ==
    \/ \E album \in Albums, records \in SeqsUpTo(Pictures, MaxBatch) :
           add(album, records)
    \/ \E albums \in SeqsUpTo(Albums, MaxBatch) : remove(albums)
    \/ \E albums \in SUBSET Albums : list(albums)

SpecCli == Init /\ [][CliNext]_vars

\* the main page of the server over a store that is filled and emptied
ServerNext ==
    \/ connect
    \/ \E rows \in SeqsUpTo(MapRows, MaxBatch) : insert(rows)
    \/ \E album \in Albums : delete(album)
    \/ \E albums \in SUBSET Albums : index(albums)

SpecServer == Init /\ [][ServerNext]_vars

\* the validator and the transformer on every tag dictionary
PureInit ==
    /\ StoreInit /\ GpsIdle
    /\ metadata \in RawRecords
    /\ valid = FALSE
    /\ row = NoRow
    /\ arg_album = ""
    /\ phase = "input"

PureNext ==
    \/ Validate
    \/ \E album \in Albums : Transform(album)

SpecPure == PureInit /\ [][PureNext]_vars

\* get_gps_metadata consumed batch by batch
GpsInit ==
    /\ StoreInit /\ PureIdle
    /\ paths \in PathLists
    /\ pc = "start"
    /\ i = 0
    /\ metadata_records = <<>>
    /\ batches = <<>>
    /\ calls = <<>>
    /\ error = "none"

GpsNext ==
    \/ Start
    \/ NextPartition
    \/ GetTags
    \/ GetTagsFails
    \/ Annotate
    \/ LogPartition
    \/ Yield

SpecGps == GpsInit /\ [][GpsNext]_vars

----------------------------------------------------------------------------
(* Properties of the store *)

RowsOfPair(tbl, p) == {r \in tbl : <<r.album, r.filepath>> = p}

\* C1: no two stored rows share an (album, filepath) pair; an insert of a
\* record whose pair is already stored raises no error and leaves the stored
\* row as it was, and after an insert on an open connection exactly one row
\* exists for every pair of the batch.
C1_UniquePairIdempotentInsert ==
    /\ [](\A r1, r2 \in table :
            (r1.album = r2.album /\ r1.filepath = r2.filepath) => r1 = r2)
    /\ [][(last'.op = "insert" /\ connection # "closed") =>
            /\ last'.raised = "none"
            /\ \A p \in last'.pairs :
                  RowsOfPair(table, p) # {} =>
                      /\ RowsOfPair(table', p) = RowsOfPair(table, p)
                      /\ Cardinality(RowsOfPair(table', p)) = 1
            /\ connection = "open" =>
                  \A p \in last'.pairs : Cardinality(RowsOfPair(table', p)) = 1
         ]_vars

\* an insert of an already stored pair has run and inserted nothing
C1_Witness ==
    /\ last.op = "insert"
    /\ connection = "open"
    /\ last.raised = "none"
    /\ last.n = 0
    /\ \A p \in last.pairs : Cardinality(RowsOfPair(table, p)) = 1
    /\ \E r \in table : <<r.album, r.filepath>> \in last.pairs /\ r.latitude = -40

\* C2: delete(album) removes exactly the rows of that album, returns how many
\* it removed and leaves the rows of every other album as they were; on an
\* album without rows it returns 0, raises nothing and changes nothing.
C2_DeleteExactlyAlbum ==
    [][(last'.op = "delete" /\ connection # "closed") =>
          /\ last'.raised = "none"
          /\ connection = "open" =>
                /\ \A r \in table : r \in table' <=> r.album # last'.album
                /\ table' \subseteq table
                /\ last'.n = Cardinality(table) - Cardinality(table')
          /\ (\A r \in table : r.album # last'.album) =>
                /\ last'.n = 0
                /\ table' = table
      ]_vars

\* a delete has removed the rows of one album and left those of another
C2_Witness ==
    /\ last.op = "delete"
    /\ connection = "open"
    /\ last.n = 2
    /\ table # {}
    /\ \A r \in table : r.album # last.album

\* C3: the id of a newly inserted row is larger than every id the table has
\* handed out before, those of deleted rows included.
C3_IdsNeverReused ==
    [][\A r \in table' \ table : \A old \in issued : r.id > old]_vars

\* C8: list_albums(filter) returns, each once, exactly the albums that have a
\* stored row (and are in the filter when one is given).
C8_ListAlbumsCurrent ==
    (last.op = "list_albums" /\ connection = "open" /\ last.raised = "none") =>
        LET present  == {a \in Albums : \E r \in table : r.album = a}
            expected == IF last.albums = {} THEN present
                        ELSE present \cap last.albums
        IN  /\ Range(last.names) = expected
            /\ Len(last.names) = Cardinality(expected)

\* both albums were asked for; one has two rows and the other none
C8_Witness ==
    /\ last.op = "list_albums"
    /\ connection = "open"
    /\ last.albums = {"tripA", "tripB"}
    /\ last.names = <<"tripA">>
    /\ Cardinality(table) = 2
    /\ Cardinality(issued) = 3

\* C9: select_all(albums) returns exactly the stored rows whose album is in
\* the non-empty album set, every stored row without one, and leaves the
\* table as it was.
C9_SelectAllFilter ==
    /\ []((last.op = "select_all" /\ connection = "open" /\ last.raised = "none") =>
            \A r \in table :
                r \in last.rows <=> (last.albums = {} \/ r.album \in last.albums))
    /\ []((last.op = "select_all" /\ connection = "open") => last.rows \subseteq table)
    /\ [][last'.op = "select_all" => table' = table]_vars

\* select_all(["tripA"]) on a table with rows of tripA and of tripB
C9_Witness ==
    /\ last.op = "select_all"
    /\ connection = "open"
    /\ last.albums = {"tripA"}
    /\ last.rows # {}
    /\ \E r \in table : r.album = "tripB"
    /\ \A r \in last.rows : r.album = "tripA"

\* C7: every stored row has its latitude in [-90, 90] and its longitude in
\* [-180, 180].
C7_CoordinatesInRange ==
    \A r \in table :
        /\ r.latitude >= -90 /\ r.latitude <= 90
        /\ r.longitude >= -180 /\ r.longitude <= 180

----------------------------------------------------------------------------
(* Properties of the validator and the transformer *)

HasNumber(m, k) == k \in DOMAIN m /\ m[k].type = "number" /\ m[k].n >= 0

HasOneOf(m, k, S) == k \in DOMAIN m /\ m[k].type = "str" /\ m[k].s \in S

HasNonEmptyStr(m, k) == k \in DOMAIN m /\ m[k].type = "str" /\ m[k].s # ""

\* C5: validate_gps_metadata returns true exactly when latitude and longitude
\* are present and non-negative numbers, the latitude reference is N or S, the
\* longitude reference is E or W and the source file is a non-empty string.
C5_ValidateIff ==
    phase = "validated" =>
        (valid <=>
            /\ HasNumber(metadata, "EXIF:GPSLatitude")
            /\ HasNumber(metadata, "EXIF:GPSLongitude")
            /\ HasOneOf(metadata, "EXIF:GPSLatitudeRef", {"N", "S"})
            /\ HasOneOf(metadata, "EXIF:GPSLongitudeRef", {"E", "W"})
            /\ HasNonEmptyStr(metadata, "SourceFile"))

\* C6: for an accepted record the row's latitude is the raw latitude, negated
\* when the reference is S, its longitude the raw longitude, negated when the
\* reference is W, its album and filepath the given album and the source
\* file, and its datetime null when the record carries no GPS time.
C6_TransformSigns ==
    phase = "transformed" =>
        /\ row.latitude.n =
              (IF metadata["EXIF:GPSLatitudeRef"].s = "S" THEN 0 - 1 ELSE 1) *
              metadata["EXIF:GPSLatitude"].n
        /\ row.longitude.n =
              (IF metadata["EXIF:GPSLongitudeRef"].s = "W" THEN 0 - 1 ELSE 1) *
              metadata["EXIF:GPSLongitude"].n
        /\ row.latitude.type = "number" /\ row.longitude.type = "number"
        /\ row.album = arg_album
        /\ row.filepath = metadata["SourceFile"].s
        /\ ~has_gps_datetime(metadata) => row.datetime = None

\* latitude 40 N, longitude 74 W, no GPS time
C6_Witness ==
    /\ phase = "transformed"
    /\ metadata["EXIF:GPSLatitude"] = Num(40)
    /\ metadata["EXIF:GPSLatitudeRef"] = Str("N")
    /\ metadata["EXIF:GPSLongitude"] = Num(74)
    /\ metadata["EXIF:GPSLongitudeRef"] = Str("W")
    /\ row.latitude = Num(40)
    /\ row.longitude = Num(-74)
    /\ row.datetime = None

----------------------------------------------------------------------------
(* Properties of the batch extraction generator *)

SourcesOf(records) == [j \in DOMAIN records |-> records[j]["SourceFile"].s]

Chunk(k) ==
    SubSeq(paths, (k - 1) * PATHS_PARTITION_SIZE + 1,
           Min(k * PATHS_PARTITION_SIZE, Len(paths)))

Ceil(n, s) == IF n % s = 0 THEN n \div s ELSE n \div s + 1

\* batch k holds one annotated record per path of chunk k, in path order
BatchOfChunk(k) ==
    /\ SourcesOf(batches[k]) = Chunk(k)
    /\ \A j \in DOMAIN batches[k] : "valid" \in DOMAIN batches[k][j]

\* C4: when the generator has been consumed and exiftool did not fail, it has
\* yielded ceil(n/s) batches, batch k holding the annotated records of chunk
\* k in path order, and exiftool was invoked once per chunk.
C4_OneBatchPerChunk ==
    (pc \in {"done", "raised"} /\ error # "ExifToolError") =>
        /\ Len(batches) = Ceil(Len(paths), PATHS_PARTITION_SIZE)
        /\ \A k \in 1..Len(batches) : BatchOfChunk(k)
        /\ Len(calls) = Len(batches)
        /\ \A k \in 1..Len(calls) : calls[k] = Chunk(k)

\* C10: when exiftool fails on chunk k the failure leaves the generator: the
\* chunk was tried once, chunks 1..k-1 were yielded complete and in order,
\* and afterwards no chunk is tried and no batch yielded.
C10_FailurePropagates ==
    /\ [](error = "ExifToolError" =>
            /\ pc = "raised"
            /\ Len(calls) = Len(batches) + 1
            /\ \A k \in 1..Len(calls) : calls[k] = Chunk(k)
            /\ \A k \in 1..Len(batches) : BatchOfChunk(k))
    /\ [][error = "ExifToolError" =>
            (batches' = batches /\ calls' = calls /\ pc' = pc /\ error' = error)
         ]_vars

\* exiftool failed on the chunk it was given
C10_Witness ==
    /\ error = "ExifToolError"
    /\ pc = "raised"
    /\ Len(paths) = 1000
    /\ Len(calls) = 1
    /\ calls[1] = paths
    /\ batches = <<>>

----------------------------------------------------------------------------
(* Properties of the connection lifecycle *)

\* C12: disconnect() completes without failing in every lifecycle state, never
\* connected, open or closed: its assertion that the connection is not already
\* closed holds whenever it is evaluated.
C12_DisconnectNeverFails ==
    last.op = "disconnect" => last.raised = "none"

----------------------------------------------------------------------------
(* Properties of the main page *)

RECURSIVE SumLatitude(_)
SumLatitude(S) ==
    IF S = {} THEN 0
    ELSE LET r == CHOOSE x \in S : TRUE IN r.latitude + SumLatitude(S \ {r})

RECURSIVE SumLongitude(_)
SumLongitude(S) ==
    IF S = {} THEN 0
    ELSE LET r == CHOOSE x \in S : TRUE IN r.longitude + SumLongitude(S \ {r})

Selected == {r \in table : last.albums = {} \/ r.album \in last.albums}

\* q is the quotient total / n
IsMean(q, total, n) == q.den > 0 /\ q.num * n = total * q.den

\* C11: the centroid of the main page is the mean of the latitudes and,
\* separately, of the longitudes of the selected rows, and one row is shown
\* per selected row; with no selected row the centroid is (0, 0) and the row
\* list empty.
C11_CentroidIsMean ==
    last.op = "index" =>
        /\ last.raised = "none"
        /\ Len(page.rows) = Cardinality(Selected)
        /\ {page.rows[k].id : k \in DOMAIN page.rows} = {r.id : r \in Selected}
        /\ IF Selected = {}
           THEN /\ page.centroid = <<Rat(0, 1), Rat(0, 1)>>
                /\ page.rows = <<>>
           ELSE /\ IsMean(page.centroid[1], SumLatitude(Selected),
                          Cardinality(Selected))
                /\ IsMean(page.centroid[2], SumLongitude(Selected),
                          Cardinality(Selected))

\* the centroid of (10, 20) and (30, 40) is (20, 30)
C11_Witness ==
    /\ last.op = "index"
    /\ {<<r.latitude, r.longitude>> : r \in Selected} = {<<10, 20>>, <<30, 40>>}
    /\ IsMean(page.centroid[1], 20, 1)
    /\ IsMean(page.centroid[2], 30, 1)
    /\ Len(page.rows) = 2

====
